---- MODULE Spec2Model ----
(***************************************************************************)
(* The four polling components of the ClimaX frontend (SystemOverview,     *)
(* WeatherMonitor, AlertsPanel, CitizenReports) under App, which mounts    *)
(* exactly one of them.  Each component starts a fetch on mount, arms a    *)
(* setInterval, and clears it in the effect cleanup.  Requests are         *)
(* answered by the remote API in any order, successfully or not.           *)
(*                                                                         *)
(* Time is counted in steps of StepMs milliseconds since the mounted       *)
(* component's effect ran.  The value returned by a request of cycle c is  *)
(* represented by c itself, so that data of different cycles differ.       *)
(*                                                                         *)
(* Every request goes through the axios instance created with a timeout of *)
(* TimeoutMs: a request still unanswered when the timeout expires is       *)
(* rejected, so no request stays outstanding for more than TimeoutSteps    *)
(* steps.                                                                  *)
(***************************************************************************)
EXTENDS Integers, FiniteSets, Sequences, TLC

\* ---- bounds of the model ----
MaxCycles == 4
MaxInst == 3
MaxClock == 6
MaxRegions == 2
MaxForms == 1
StepMs == 10000
MaxValues == 2
MaxApply == 2
MaxText == 1

\* ---- program constants ----
AlertsPeriodMs == 30000
DashboardPeriodMs == 30000
ReportsPeriodMs == 30000
WeatherPeriodMs == 60000
TimeoutMs == 10000
NoData == 0

Sections == {"dashboard", "weather", "alerts", "reports"}

regions == <<"delhi", "mumbai", "bangalore", "chennai", "kolkata">>

Regions == {regions[k] : k \in 1..(IF MaxRegions < Len(regions) THEN MaxRegions ELSE Len(regions))}

PeriodOf(s) ==
    CASE s = "weather" -> WeatherPeriodMs \div StepMs
      [] s = "alerts" -> AlertsPeriodMs \div StepMs
      [] s = "reports" -> ReportsPeriodMs \div StepMs
      [] OTHER -> DashboardPeriodMs \div StepMs

\* the request timeout in steps, rounded up: a request may be answered up to
\* the step in which its timeout expires
TimeoutSteps == (TimeoutMs + StepMs - 1) \div StepMs

VARIABLES
    activeSection,   \* App: useState('dashboard')
    inst,            \* number of the mounted component instance
    clock,           \* steps elapsed since the mounted instance's effect ran
    timers,          \* armed intervals: records [inst, section, fire]
    cycles,          \* invocations of the fetch functions, by cycle number
    loading,         \* loading flag of the mounted component, per section
    alerts,          \* AlertsPanel state
    generating,      \* AlertsPanel state
    genPosting,      \* generateTestAlerts requests outstanding: records [inst, age]
    dashboardData,   \* SystemOverview state
    reports,         \* CitizenReports state
    showForm,        \* CitizenReports state
    formId,          \* number of the ReportSubmissionForm instance last opened
    submitting,      \* ReportSubmissionForm state of the open form
    formData,        \* ReportSubmissionForm state of the open form: the description
                     \* entered, 0 for the empty one
    subs,            \* submitReport requests outstanding: records [inst, form, age]
    weatherData,     \* WeatherMonitor state, region -> value or NoData
    threatAnalyses,  \* WeatherMonitor state, region -> value or NoData
    refreshing,      \* WeatherMonitor state
    lastGoodWeather, \* observer: per region, the value of its last successful weather
                     \* fetch in a cycle of the mounted instance that has completed
    lateSetterCalls  \* observer: a fetch function called before its component's effect
                     \* cleanup has called its state setters after that cleanup

vars == <<activeSection, inst, clock, timers, cycles, loading, alerts, generating,
          genPosting, dashboardData, reports, showForm, formId, submitting, formData,
          subs, weatherData, threatAnalyses, refreshing, lastGoodWeather, lateSetterCalls>>

alertsVars == <<alerts, generating, genPosting>>
reportsVars == <<reports, showForm, formId, submitting, formData, subs>>
weatherVars == <<weatherData, threatAnalyses, refreshing, lastGoodWeather>>

CycleIds == 1..MaxCycles

NoRegionData == [r \in Regions |-> NoData]

NoRequests == [r \in Regions |-> "none"]

\* A cycle is one invocation of a fetch function.  While it is in flight the
\* record holds the state of each of its requests; once the function has run
\* its finally block the request states are dropped: they are read by no
\* code, and the answers to requests still outstanding at that point reach
\* no code that changes state.  age counts the steps since the requests
\* were issued.
NoCycle ==
    [phase |-> "unused", section |-> "none", inst |-> 0, origin |-> "none",
     orphan |-> FALSE, req |-> "none", w |-> NoRequests, t |-> NoRequests, age |-> 0]

\* The record of a fetch function that has just been called and has issued
\* its requests: one request for the single-endpoint pollers, one weather and
\* one threat request per region for WeatherMonitor.
NewCycle(s, i, origin, live) ==
    IF s = "weather"
    THEN [phase |-> "awaitWeather", section |-> s, inst |-> i, origin |-> origin,
          orphan |-> ~live, req |-> "none",
          w |-> [r \in Regions |-> "pending"], t |-> [r \in Regions |-> "pending"],
          age |-> 0]
    ELSE [phase |-> "await", section |-> s, inst |-> i, origin |-> origin,
          orphan |-> ~live, req |-> "pending", w |-> NoRequests, t |-> NoRequests,
          age |-> 0]

Started == {c \in CycleIds : cycles[c].phase # "unused"}

NextCycle == Cardinality(Started) + 1

\* a fetch function invocation that has started and not yet run its finally block
InFlight(c) == cycles[c].phase \in {"await", "awaitWeather", "awaitThreat"}

InFlightOf(i) == {c \in CycleIds : InFlight(c) /\ cycles[c].inst = i}

CyclesOf(i) == {c \in Started : cycles[c].inst = i}

Init ==
    /\ activeSection = "dashboard"
    /\ inst = 1
    /\ clock = 0
    /\ timers = {[inst |-> 1, section |-> "dashboard", fire |-> PeriodOf("dashboard")]}
    /\ cycles = [c \in CycleIds |->
                    IF c = 1 THEN NewCycle("dashboard", 1, "mount", TRUE) ELSE NoCycle]
    /\ loading = [s \in Sections |-> TRUE]
    /\ alerts = NoData
    /\ generating = FALSE
    /\ genPosting = {}
    /\ dashboardData = NoData
    /\ reports = NoData
    /\ showForm = FALSE
    /\ formId = 0
    /\ submitting = FALSE
    /\ formData = 0
    /\ subs = {}
    /\ weatherData = NoRegionData
    /\ threatAnalyses = NoRegionData
    /\ refreshing = FALSE
    /\ lastGoodWeather = NoRegionData
    /\ lateSetterCalls = FALSE

\* ---- calling a fetch function ----

\* fetchAlerts / fetchDashboardData / fetchReports / fetchWeatherData called on
\* behalf of instance i: the requests are issued and the function suspends at
\* its first await.  live tells whether instance i is the mounted one.
StartFetch(s, i, origin, live) ==
    /\ NextCycle <= MaxCycles
    /\ cycles' = [cycles EXCEPT ![NextCycle] = NewCycle(s, i, origin, live)]

\* ---- App: section change ----

\* Variant of Navigate: the component state outlives the unmount (as if it were
\* kept by App), so the newly mounted component starts from what the previous
\* one left.
NavigateKeepsState(s) ==
    /\ s # activeSection
    /\ inst < MaxInst
    /\ activeSection' = s
    /\ inst' = inst + 1
    /\ clock' = 0
    /\ StartFetch(s, inst + 1, "mount", TRUE)
    /\ timers' = {tm \in timers : tm.inst # inst}
                    \cup {[inst |-> inst + 1, section |-> s, fire |-> PeriodOf(s)]}
    /\ refreshing' = (s = "weather")
    /\ UNCHANGED <<loading, alerts, generating, dashboardData, reports, showForm,
                   submitting, formData, weatherData, threatAnalyses, lastGoodWeather,
                   genPosting, formId, subs, lateSetterCalls>>

\* Variant of Navigate: the effect cleanup does not clear the interval of the
\* component being unmounted.
NavigateKeepsTimer(s) ==
    /\ s # activeSection
    /\ inst < MaxInst
    /\ activeSection' = s
    /\ inst' = inst + 1
    /\ clock' = 0
    /\ StartFetch(s, inst + 1, "mount", TRUE)
    /\ timers' = timers \cup {[inst |-> inst + 1, section |-> s, fire |-> PeriodOf(s)]}
    /\ loading' = [x \in Sections |-> TRUE]
    /\ alerts' = NoData
    /\ generating' = FALSE
    /\ dashboardData' = NoData
    /\ reports' = NoData
    /\ showForm' = FALSE
    /\ submitting' = FALSE
    /\ formData' = 0
    /\ weatherData' = NoRegionData
    /\ threatAnalyses' = NoRegionData
    /\ refreshing' = (s = "weather")
    /\ lastGoodWeather' = NoRegionData
    /\ UNCHANGED <<genPosting, formId, subs, lateSetterCalls>>

\* Header button -> setActiveSection(s): the mounted component is unmounted
\* (its effect cleanup clears its interval, its state is discarded) and the
\* component of section s is mounted (state initial, effect runs: fetch, then
\* setInterval).
Navigate(s) ==
    /\ s # activeSection
    /\ inst < MaxInst
    /\ activeSection' = s
    /\ inst' = inst + 1
    /\ clock' = 0
    /\ StartFetch(s, inst + 1, "mount", TRUE)
    /\ timers' = {tm \in timers : tm.inst # inst}
                    \cup {[inst |-> inst + 1, section |-> s, fire |-> PeriodOf(s)]}
    /\ loading' = [x \in Sections |-> TRUE]
    /\ alerts' = NoData
    /\ generating' = FALSE
    /\ dashboardData' = NoData
    /\ reports' = NoData
    /\ showForm' = FALSE
    /\ submitting' = FALSE
    /\ formData' = 0
    /\ weatherData' = NoRegionData
    /\ threatAnalyses' = NoRegionData
    /\ refreshing' = (s = "weather")
    /\ lastGoodWeather' = NoRegionData
    /\ UNCHANGED <<genPosting, formId, subs, lateSetterCalls>>

\* ---- timers ----

\* Variant of Tick: the fetch function calls setLoading(true) when it starts.
TickSetsLoading(tm) ==
    /\ tm \in timers
    /\ tm.fire = clock
    /\ StartFetch(tm.section, tm.inst, "tick", tm.inst = inst)
    /\ timers' = (timers \ {tm}) \cup {[tm EXCEPT !.fire = tm.fire + PeriodOf(tm.section)]}
    /\ refreshing' = IF tm.section = "weather" /\ tm.inst = inst THEN TRUE ELSE refreshing
    /\ loading' = IF tm.inst = inst THEN [loading EXCEPT ![tm.section] = TRUE] ELSE loading
    /\ UNCHANGED <<activeSection, inst, clock, alertsVars, dashboardData,
                   reportsVars, weatherData, threatAnalyses, lastGoodWeather,
                   lateSetterCalls>>

\* Variant of Tick: the callback re-arms nothing and starts no fetch (the tick
\* is lost).
TickLost(tm) ==
    /\ tm \in timers
    /\ tm.fire = clock
    /\ timers' = (timers \ {tm}) \cup {[tm EXCEPT !.fire = tm.fire + PeriodOf(tm.section)]}
    /\ UNCHANGED <<activeSection, inst, clock, cycles, loading, alertsVars, dashboardData,
                   reportsVars, weatherVars, lateSetterCalls>>

\* The interval callback of an armed timer runs: the fetch function is called
\* unconditionally and the interval stays armed for one period later.
Tick(tm) ==
    /\ tm \in timers
    /\ tm.fire = clock
    /\ StartFetch(tm.section, tm.inst, "tick", tm.inst = inst)
    /\ timers' = (timers \ {tm}) \cup {[tm EXCEPT !.fire = tm.fire + PeriodOf(tm.section)]}
    /\ refreshing' = IF tm.section = "weather" /\ tm.inst = inst THEN TRUE ELSE refreshing
    /\ UNCHANGED <<activeSection, inst, clock, loading, alertsVars, dashboardData,
                   reportsVars, weatherData, threatAnalyses, lastGoodWeather,
                   lateSetterCalls>>

\* One step of time passes; a due interval callback runs first, and a
\* request whose timeout expires in the current step is settled first (axios
\* rejects it if no answer has come).
Advance ==
    /\ clock < MaxClock
    /\ \A tm \in timers : tm.fire > clock
    /\ \A c \in CycleIds : InFlight(c) => cycles[c].age < TimeoutSteps
    /\ \A g \in genPosting : g.age < TimeoutSteps
    /\ \A sb \in subs : sb.age < TimeoutSteps
    /\ clock' = clock + 1
    /\ cycles' = [c \in CycleIds |->
                    IF InFlight(c) THEN [cycles[c] EXCEPT !.age = @ + 1] ELSE cycles[c]]
    /\ genPosting' = {[g EXCEPT !.age = @ + 1] : g \in genPosting}
    /\ subs' = {[sb EXCEPT !.age = @ + 1] : sb \in subs}
    /\ UNCHANGED <<activeSection, inst, timers, loading, alerts, generating,
                   dashboardData, reports, showForm, formId, submitting, formData,
                   weatherVars, lateSetterCalls>>

\* ---- Refresh buttons ----

\* AlertsPanel Refresh button: onClick={fetchAlerts}; rendered once loading is
\* false, never disabled.
RefreshAlerts ==
    /\ activeSection = "alerts"
    /\ ~loading["alerts"]
    /\ StartFetch("alerts", inst, "refresh", TRUE)
    /\ UNCHANGED <<activeSection, inst, clock, timers, loading, alertsVars,
                   dashboardData, reportsVars, weatherVars, lateSetterCalls>>

\* Variant of RefreshWeather: the click also restarts the interval, so the
\* next tick comes one full period after the click.
RefreshWeatherRearm ==
    /\ activeSection = "weather"
    /\ ~loading["weather"]
    /\ ~refreshing
    /\ StartFetch("weather", inst, "refresh", TRUE)
    /\ refreshing' = TRUE
    /\ timers' = {[tm EXCEPT !.fire = clock + PeriodOf(tm.section)] : tm \in timers}
    /\ UNCHANGED <<activeSection, inst, clock, loading, alertsVars,
                   dashboardData, reportsVars, weatherData, threatAnalyses,
                   lastGoodWeather, lateSetterCalls>>

\* WeatherMonitor Refresh button: onClick={fetchWeatherData},
\* disabled={refreshing}; rendered once loading is false.
RefreshWeather ==
    /\ activeSection = "weather"
    /\ ~loading["weather"]
    /\ ~refreshing
    /\ StartFetch("weather", inst, "refresh", TRUE)
    /\ refreshing' = TRUE
    /\ UNCHANGED <<activeSection, inst, clock, timers, loading, alertsVars,
                   dashboardData, reportsVars, weatherData, threatAnalyses,
                   lastGoodWeather, lateSetterCalls>>

\* ---- responses of the single-request pollers ----

\* Variant of FetchResponse: the catch block of a failed fetch clears the
\* interval, so polling stops at the first failure.
FetchResponseStopsTimer(c, outcome) ==
    LET cy == cycles[c]
        live == cy.inst = inst
    IN  /\ cy.phase = "await"
        /\ cycles' = [cycles EXCEPT ![c].phase = "done", ![c].req = "none", ![c].age = 0]
        /\ timers' = IF outcome = "fail" THEN {tm \in timers : tm.inst # cy.inst} ELSE timers
        /\ IF live
           THEN /\ loading' = [loading EXCEPT ![cy.section] = FALSE]
                /\ alerts' = IF cy.section = "alerts" /\ outcome = "ok" THEN c ELSE alerts
                /\ dashboardData' = IF cy.section = "dashboard" /\ outcome = "ok"
                                    THEN c ELSE dashboardData
                /\ reports' = IF cy.section = "reports" /\ outcome = "ok" THEN c ELSE reports
                /\ generating' = IF cy.origin = "generate" THEN FALSE ELSE generating
                /\ UNCHANGED lateSetterCalls
           ELSE /\ lateSetterCalls' = (lateSetterCalls \/ ~cy.orphan)
                /\ UNCHANGED <<loading, alerts, dashboardData, reports, generating>>
        /\ UNCHANGED <<activeSection, inst, clock, genPosting, showForm, formId,
                       submitting, formData, subs, weatherVars>>

\* Variant of FetchResponse: a failed fetch resets the displayed data to its
\* initial value.
FetchResponseClears(c, outcome) ==
    LET cy == cycles[c]
        live == cy.inst = inst
    IN  /\ cy.phase = "await"
        /\ cycles' = [cycles EXCEPT ![c].phase = "done", ![c].req = "none", ![c].age = 0]
        /\ IF live
           THEN /\ loading' = [loading EXCEPT ![cy.section] = FALSE]
                /\ alerts' = IF cy.section = "alerts"
                              THEN (IF outcome = "ok" THEN c ELSE NoData) ELSE alerts
                /\ dashboardData' = IF cy.section = "dashboard"
                                    THEN (IF outcome = "ok" THEN c ELSE NoData)
                                    ELSE dashboardData
                /\ reports' = IF cy.section = "reports"
                               THEN (IF outcome = "ok" THEN c ELSE NoData) ELSE reports
                /\ generating' = IF cy.origin = "generate" THEN FALSE ELSE generating
                /\ UNCHANGED lateSetterCalls
           ELSE /\ lateSetterCalls' = (lateSetterCalls \/ ~cy.orphan)
                /\ UNCHANGED <<loading, alerts, dashboardData, reports, generating>>
        /\ UNCHANGED <<activeSection, inst, clock, timers, genPosting, showForm, formId,
                       submitting, formData, subs, weatherVars>>

\* The request of cycle c is answered; the suspended fetch function resumes:
\* on success the data setter is called, on failure the error is logged, and
\* the finally block calls setLoading(false).  A setter of an unmounted
\* component changes nothing.  When the fetch was awaited by
\* generateTestAlerts, that function resumes too and its finally block calls
\* setGenerating(false).
FetchResponse(c, outcome) ==
    LET cy == cycles[c]
        live == cy.inst = inst
    IN  /\ cy.phase = "await"
        /\ cycles' = [cycles EXCEPT ![c].phase = "done", ![c].req = "none", ![c].age = 0]
        /\ IF live
           THEN /\ loading' = [loading EXCEPT ![cy.section] = FALSE]
                /\ alerts' = IF cy.section = "alerts" /\ outcome = "ok" THEN c ELSE alerts
                /\ dashboardData' = IF cy.section = "dashboard" /\ outcome = "ok"
                                    THEN c ELSE dashboardData
                /\ reports' = IF cy.section = "reports" /\ outcome = "ok" THEN c ELSE reports
                /\ generating' = IF cy.origin = "generate" THEN FALSE ELSE generating
                /\ UNCHANGED lateSetterCalls
           ELSE /\ lateSetterCalls' = (lateSetterCalls \/ ~cy.orphan)
                /\ UNCHANGED <<loading, alerts, dashboardData, reports, generating>>
        /\ UNCHANGED <<activeSection, inst, clock, timers, genPosting, showForm, formId,
                       submitting, formData, subs, weatherVars>>

\* ---- responses of the WeatherMonitor requests ----

AllOk(f) == \A r \in Regions : f[r] = "ok"

AnyFail(f) == \E r \in Regions : f[r] = "fail"

\* Where fetchWeatherData stands after one of its requests has been answered,
\* given the request states nw, nt after the answer.  It awaits
\* Promise.all(weatherPromises) first and Promise.all(threatPromises) second;
\* Promise.all rejects as soon as one of its promises is rejected and fulfils
\* when all are fulfilled.  "failed" and "succeeded" are the two ways the
\* function reaches its finally block.
PhaseAfter(phase, nw, nt) ==
    CASE phase = "awaitWeather" ->
            IF AnyFail(nw) THEN "failed"
            ELSE IF ~AllOk(nw) THEN "awaitWeather"
            ELSE IF AnyFail(nt) THEN "failed"
            ELSE IF AllOk(nt) THEN "succeeded"
            ELSE "awaitThreat"
      [] phase = "awaitThreat" ->
            IF AnyFail(nt) THEN "failed"
            ELSE IF AllOk(nt) THEN "succeeded"
            ELSE "awaitThreat"
      [] OTHER -> phase

\* Variant of WeatherResponse: when the cycle ends, the entries of the regions
\* whose request had succeeded are stored, whether the cycle failed or not.
WeatherResponseMergesOk(c, k, r, outcome) ==
    LET cy == cycles[c]
        live == cy.inst = inst
        nw == IF k = "w" THEN [cy.w EXCEPT ![r] = outcome] ELSE cy.w
        nt == IF k = "t" THEN [cy.t EXCEPT ![r] = outcome] ELSE cy.t
        after == PhaseAfter(cy.phase, nw, nt)
        ends == after \in {"failed", "succeeded"}
    IN  /\ cy.phase \in {"awaitWeather", "awaitThreat"}
        /\ IF k = "w" THEN cy.w[r] = "pending" ELSE cy.t[r] = "pending"
        /\ cycles' = [cycles EXCEPT ![c] =
                        IF ends
                        THEN [cy EXCEPT !.phase = "done", !.w = NoRequests, !.t = NoRequests,
                                        !.age = 0]
                        ELSE [cy EXCEPT !.phase = after, !.w = nw, !.t = nt]]
        /\ IF ends /\ live
           THEN /\ weatherData' = [x \in Regions |->
                                     IF nw[x] = "ok" THEN c ELSE weatherData[x]]
                /\ threatAnalyses' = [x \in Regions |->
                                        IF nt[x] = "ok" THEN c ELSE threatAnalyses[x]]
                /\ loading' = [loading EXCEPT !["weather"] = FALSE]
                /\ refreshing' = FALSE
                /\ lastGoodWeather' = [x \in Regions |->
                                         IF nw[x] = "ok" THEN c ELSE lastGoodWeather[x]]
           ELSE UNCHANGED <<weatherData, threatAnalyses, loading, refreshing,
                            lastGoodWeather>>
        /\ lateSetterCalls' = (lateSetterCalls \/ (ends /\ ~live /\ ~cy.orphan))
        /\ UNCHANGED <<activeSection, inst, clock, timers, alertsVars, dashboardData,
                       reportsVars>>

\* Variant of WeatherResponse: a successful cycle publishes its weather
\* results and leaves the threat analyses of the previous cycle in place.
WeatherResponseWeatherOnly(c, k, r, outcome) ==
    LET cy == cycles[c]
        live == cy.inst = inst
        nw == IF k = "w" THEN [cy.w EXCEPT ![r] = outcome] ELSE cy.w
        nt == IF k = "t" THEN [cy.t EXCEPT ![r] = outcome] ELSE cy.t
        after == PhaseAfter(cy.phase, nw, nt)
        ends == after \in {"failed", "succeeded"}
    IN  /\ cy.phase \in {"awaitWeather", "awaitThreat"}
        /\ IF k = "w" THEN cy.w[r] = "pending" ELSE cy.t[r] = "pending"
        /\ cycles' = [cycles EXCEPT ![c] =
                        IF ends
                        THEN [cy EXCEPT !.phase = "done", !.w = NoRequests, !.t = NoRequests,
                                        !.age = 0]
                        ELSE [cy EXCEPT !.phase = after, !.w = nw, !.t = nt]]
        /\ IF ends /\ live
           THEN /\ weatherData' = IF after = "succeeded"
                                  THEN [x \in Regions |-> c] ELSE weatherData
                /\ threatAnalyses' = threatAnalyses
                /\ loading' = [loading EXCEPT !["weather"] = FALSE]
                /\ refreshing' = FALSE
                /\ lastGoodWeather' = [x \in Regions |->
                                         IF nw[x] = "ok" THEN c ELSE lastGoodWeather[x]]
           ELSE UNCHANGED <<weatherData, threatAnalyses, loading, refreshing,
                            lastGoodWeather>>
        /\ lateSetterCalls' = (lateSetterCalls \/ (ends /\ ~live /\ ~cy.orphan))
        /\ UNCHANGED <<activeSection, inst, clock, timers, alertsVars, dashboardData,
                       reportsVars>>

\* Variant of WeatherResponse: a cycle that ends in failure stores an entry
\* for every region all the same.
WeatherResponsePlaceholder(c, k, r, outcome) ==
    LET cy == cycles[c]
        live == cy.inst = inst
        nw == IF k = "w" THEN [cy.w EXCEPT ![r] = outcome] ELSE cy.w
        nt == IF k = "t" THEN [cy.t EXCEPT ![r] = outcome] ELSE cy.t
        after == PhaseAfter(cy.phase, nw, nt)
        ends == after \in {"failed", "succeeded"}
    IN  /\ cy.phase \in {"awaitWeather", "awaitThreat"}
        /\ IF k = "w" THEN cy.w[r] = "pending" ELSE cy.t[r] = "pending"
        /\ cycles' = [cycles EXCEPT ![c] =
                        IF ends
                        THEN [cy EXCEPT !.phase = "done", !.w = NoRequests, !.t = NoRequests,
                                        !.age = 0]
                        ELSE [cy EXCEPT !.phase = after, !.w = nw, !.t = nt]]
        /\ IF ends /\ live
           THEN /\ weatherData' = [x \in Regions |-> c]
                /\ threatAnalyses' = IF after = "succeeded"
                                     THEN [x \in Regions |-> c] ELSE threatAnalyses
                /\ loading' = [loading EXCEPT !["weather"] = FALSE]
                /\ refreshing' = FALSE
                /\ lastGoodWeather' = [x \in Regions |->
                                         IF nw[x] = "ok" THEN c ELSE lastGoodWeather[x]]
           ELSE UNCHANGED <<weatherData, threatAnalyses, loading, refreshing,
                            lastGoodWeather>>
        /\ lateSetterCalls' = (lateSetterCalls \/ (ends /\ ~live /\ ~cy.orphan))
        /\ UNCHANGED <<activeSection, inst, clock, timers, alertsVars, dashboardData,
                       reportsVars>>

\* The weather (k = "w") or threat (k = "t") request of region r of the
\* in-flight cycle c is answered.  If that lets fetchWeatherData resume, it
\* runs to its end: on success both maps are replaced by the maps built from
\* this cycle's results; in either case the finally block calls
\* setLoading(false) and setRefreshing(false).
WeatherResponse(c, k, r, outcome) ==
    LET cy == cycles[c]
        live == cy.inst = inst
        nw == IF k = "w" THEN [cy.w EXCEPT ![r] = outcome] ELSE cy.w
        nt == IF k = "t" THEN [cy.t EXCEPT ![r] = outcome] ELSE cy.t
        after == PhaseAfter(cy.phase, nw, nt)
        ends == after \in {"failed", "succeeded"}
    IN  /\ cy.phase \in {"awaitWeather", "awaitThreat"}
        /\ IF k = "w" THEN cy.w[r] = "pending" ELSE cy.t[r] = "pending"
        /\ cycles' = [cycles EXCEPT ![c] =
                        IF ends
                        THEN [cy EXCEPT !.phase = "done", !.w = NoRequests, !.t = NoRequests,
                                        !.age = 0]
                        ELSE [cy EXCEPT !.phase = after, !.w = nw, !.t = nt]]
        /\ IF ends /\ live
           THEN /\ weatherData' = IF after = "succeeded"
                                  THEN [x \in Regions |-> c] ELSE weatherData
                /\ threatAnalyses' = IF after = "succeeded"
                                     THEN [x \in Regions |-> c] ELSE threatAnalyses
                /\ loading' = [loading EXCEPT !["weather"] = FALSE]
                /\ refreshing' = FALSE
                /\ lastGoodWeather' = [x \in Regions |->
                                         IF nw[x] = "ok" THEN c ELSE lastGoodWeather[x]]
           ELSE UNCHANGED <<weatherData, threatAnalyses, loading, refreshing,
                            lastGoodWeather>>
        /\ lateSetterCalls' = (lateSetterCalls \/ (ends /\ ~live /\ ~cy.orphan))
        /\ UNCHANGED <<activeSection, inst, clock, timers, alertsVars, dashboardData,
                       reportsVars>>

\* ---- AlertsPanel: generateTestAlerts ----

\* Generate Test Alerts button (disabled={generating}; rendered once loading is
\* false): setGenerating(true), then the generation request is issued.
GenerateTestAlerts ==
    /\ activeSection = "alerts"
    /\ ~loading["alerts"]
    /\ ~generating
    /\ generating' = TRUE
    /\ genPosting' = genPosting \cup {[inst |-> inst, age |-> 0]}
    /\ UNCHANGED <<activeSection, inst, clock, timers, cycles, loading, alerts,
                   dashboardData, reportsVars, weatherVars, lateSetterCalls>>

\* Variant of GenerateResponse: fetchAlerts is called in the finally block, so
\* after a failed generation request too.
GenerateResponseAlwaysFetches(i, outcome) ==
    /\ \E g \in genPosting : g.inst = i
    /\ genPosting' = {g \in genPosting : g.inst # i}
    /\ StartFetch("alerts", i, "generate", i = inst)
    /\ UNCHANGED generating
    /\ UNCHANGED <<activeSection, inst, clock, timers, loading, alerts, dashboardData,
                   reportsVars, weatherVars, lateSetterCalls>>

\* Variant of GenerateResponse: setGenerating(false) is called on the success
\* path only, so a failed generation request leaves generating set.
GenerateResponseKeepsFlag(i, outcome) ==
    /\ \E g \in genPosting : g.inst = i
    /\ genPosting' = {g \in genPosting : g.inst # i}
    /\ IF outcome = "ok"
       THEN /\ StartFetch("alerts", i, "generate", i = inst)
            /\ UNCHANGED generating
       ELSE UNCHANGED <<generating, cycles>>
    /\ UNCHANGED <<activeSection, inst, clock, timers, loading, alerts, dashboardData,
                   reportsVars, weatherVars, lateSetterCalls>>

\* The generation request of instance i is answered.  On success
\* generateTestAlerts goes on to call fetchAlerts and awaits it; on failure the
\* error is logged and the finally block calls setGenerating(false).
GenerateResponse(i, outcome) ==
    /\ \E g \in genPosting : g.inst = i
    /\ genPosting' = {g \in genPosting : g.inst # i}
    /\ IF outcome = "ok"
       THEN /\ StartFetch("alerts", i, "generate", i = inst)
            /\ UNCHANGED generating
       ELSE /\ generating' = IF i = inst THEN FALSE ELSE generating
            /\ UNCHANGED cycles
    /\ UNCHANGED <<activeSection, inst, clock, timers, loading, alerts, dashboardData,
                   reportsVars, weatherVars, lateSetterCalls>>

\* ---- CitizenReports and ReportSubmissionForm ----

\* Submit Report button: setShowForm(true) mounts a new form instance.
OpenForm ==
    /\ activeSection = "reports"
    /\ ~loading["reports"]
    /\ ~showForm
    /\ formId < MaxForms
    /\ showForm' = TRUE
    /\ formId' = formId + 1
    /\ submitting' = FALSE
    /\ formData' = 0
    /\ UNCHANGED <<activeSection, inst, clock, timers, cycles, loading, alertsVars,
                   dashboardData, reports, subs, weatherVars, lateSetterCalls>>

\* Cancel / X button of the form: onClose = setShowForm(false) unmounts it.
CloseForm ==
    /\ activeSection = "reports"
    /\ showForm
    /\ showForm' = FALSE
    /\ submitting' = FALSE
    /\ formData' = 0
    /\ UNCHANGED <<activeSection, inst, clock, timers, cycles, loading, alertsVars,
                   dashboardData, reports, formId, subs, weatherVars, lateSetterCalls>>

\* An input of the open form is changed: setFormData.  Of the fields only the
\* description is kept, the one that decides whether the form can be
\* submitted.
EditForm(text) ==
    /\ activeSection = "reports"
    /\ showForm
    /\ text # formData
    /\ formData' = text
    /\ UNCHANGED <<activeSection, inst, clock, timers, cycles, loading, alertsVars,
                   dashboardData, reports, showForm, formId, submitting, subs,
                   weatherVars, lateSetterCalls>>

\* The form is submitted (the submit button is disabled while submitting, the
\* description is a required field): handleSubmit up to its await,
\* setSubmitting(true), submitReport(formData) issued.
HandleSubmit ==
    /\ activeSection = "reports"
    /\ showForm
    /\ ~submitting
    /\ formData # 0
    /\ submitting' = TRUE
    /\ subs' = subs \cup {[inst |-> inst, form |-> formId, age |-> 0]}
    /\ UNCHANGED <<activeSection, inst, clock, timers, cycles, loading, alertsVars,
                   dashboardData, reports, showForm, formId, formData, weatherVars,
                   lateSetterCalls>>

\* Variant of SubmitResponse: onSubmitted is called in the finally block, so
\* after a failed submission too.
SubmitResponseAlwaysNotifies(sb, outcome) ==
    LET live == sb.inst = inst
    IN  /\ sb \in subs
        /\ subs' = subs \ {sb}
        /\ StartFetch("reports", sb.inst, "submit", live)
        /\ showForm' = IF live THEN FALSE ELSE showForm
        /\ submitting' = IF live THEN FALSE ELSE submitting
        /\ formData' = IF live THEN 0 ELSE formData
        /\ UNCHANGED <<activeSection, inst, clock, timers, loading, alertsVars,
                       dashboardData, reports, formId, weatherVars, lateSetterCalls>>

\* Variant of SubmitResponse: handleReportSubmitted also restarts the
\* interval, so the next tick comes one full period after the submission.
SubmitResponseRearms(sb, outcome) ==
    LET live == sb.inst = inst
        formLive == live /\ showForm /\ sb.form = formId
    IN  /\ sb \in subs
        /\ subs' = subs \ {sb}
        /\ IF outcome = "ok"
           THEN /\ StartFetch("reports", sb.inst, "submit", live)
                /\ showForm' = IF live THEN FALSE ELSE showForm
                /\ submitting' = IF live THEN FALSE ELSE submitting
                /\ formData' = IF live THEN 0 ELSE formData
                /\ timers' = IF live
                              THEN {[tm EXCEPT !.fire = clock + PeriodOf(tm.section)] :
                                       tm \in timers}
                              ELSE timers
           ELSE /\ submitting' = IF formLive THEN FALSE ELSE submitting
                /\ UNCHANGED <<cycles, showForm, formData, timers>>
        /\ UNCHANGED <<activeSection, inst, clock, loading, alertsVars,
                       dashboardData, reports, formId, weatherVars, lateSetterCalls>>

\* The submission sb is answered and handleSubmit resumes.  On success it
\* calls onSubmitted, which is handleReportSubmitted of the CitizenReports
\* instance that rendered the form: setShowForm(false), then fetchReports().
\* The finally block calls setSubmitting(false) on the form instance.
SubmitResponse(sb, outcome) ==
    LET live == sb.inst = inst
        formLive == live /\ showForm /\ sb.form = formId
    IN  /\ sb \in subs
        /\ subs' = subs \ {sb}
        /\ IF outcome = "ok"
           THEN /\ StartFetch("reports", sb.inst, "submit", live)
                /\ showForm' = IF live THEN FALSE ELSE showForm
                /\ submitting' = IF live THEN FALSE ELSE submitting
                /\ formData' = IF live THEN 0 ELSE formData
           ELSE /\ submitting' = IF formLive THEN FALSE ELSE submitting
                /\ UNCHANGED <<cycles, showForm, formData>>
        /\ UNCHANGED <<activeSection, inst, clock, timers, loading, alertsVars,
                       dashboardData, reports, formId, weatherVars, lateSetterCalls>>

Next ==
    \/ \E s \in Sections : Navigate(s)
    \/ \E tm \in timers : Tick(tm)
    \/ Advance
    \/ RefreshAlerts
    \/ RefreshWeather
    \/ \E c \in CycleIds, outcome \in {"ok", "fail"} : FetchResponse(c, outcome)
    \/ \E c \in CycleIds, k \in {"w", "t"}, r \in Regions, outcome \in {"ok", "fail"} :
          WeatherResponse(c, k, r, outcome)
    \/ GenerateTestAlerts
    \/ \E i \in 1..MaxInst, outcome \in {"ok", "fail"} : GenerateResponse(i, outcome)
    \/ OpenForm
    \/ CloseForm
    \/ \E text \in 0..MaxText : EditForm(text)
    \/ HandleSubmit
    \/ \E sb \in subs, outcome \in {"ok", "fail"} : SubmitResponse(sb, outcome)

Spec == Init /\ [][Next]_vars

\* Every request is answered: axios settles it at the latest when its timeout
\* expires.
FairSpec ==
    /\ Spec
    /\ WF_vars(\E i \in 1..MaxInst, outcome \in {"ok", "fail"} : GenerateResponse(i, outcome))
    /\ WF_vars(\E c \in CycleIds, outcome \in {"ok", "fail"} : FetchResponse(c, outcome))

\* ---- vocabulary of the properties ----

\* cycle c is started in this step
Starts(c) == cycles[c].phase = "unused" /\ cycles'[c].phase # "unused"

\* the fetch function of cycle c runs its finally block in this step
Completes(c) == InFlight(c) /\ cycles'[c].phase = "done"

PendingOf(c) ==
    {<<k, r>> \in {"w", "t"} \X Regions :
        IF k = "w" THEN cycles[c].w[r] = "pending" ELSE cycles[c].t[r] = "pending"}

WeatherCycle(c) == cycles[c].phase \in {"awaitWeather", "awaitThreat"}

\* C1: no reachable state has two invocations of the mounted instance's fetch
\* function started and not yet completed.
C1_AtMostOneInFlight == Cardinality(InFlightOf(inst)) <= 1

\* C2: once a component's effect cleanup has run, no state setter of that
\* instance is invoked with the outcome of a cycle that was in flight at the
\* cleanup.
C2_ResultDiscardedAfterCleanup == ~lateSetterCalls

\* C3: no fetch cycle is ever started for an instance whose effect cleanup has
\* run, whether by a tick, by the continuation of generateTestAlerts or by
\* handleReportSubmitted.
C3_NoFetchAfterCleanup == \A c \in CycleIds : ~cycles[c].orphan

\* C4: when a WeatherMonitor cycle of the mounted instance completes, every
\* key whose request of that cycle had succeeded holds the cycle's value in the
\* snapshot, and, unless the whole cycle succeeded, every other key holds the
\* entry (or absence of entry) it had before.
C4_PartialSuccessMerged ==
    [][\A c \in CycleIds :
          (WeatherCycle(c) /\ Completes(c) /\ cycles[c].inst = inst) =>
              \A r \in Regions :
                 /\ cycles[c].w[r] = "ok" => weatherData'[r] = c
                 /\ cycles[c].t[r] = "ok" => threatAnalyses'[r] = c
                 /\ (cycles[c].w[r] # "ok" /\ weatherData' # [x \in Regions |-> c])
                       => weatherData'[r] = weatherData[r]
                 /\ (cycles[c].t[r] # "ok" /\ threatAnalyses' # [x \in Regions |-> c])
                       => threatAnalyses'[r] = threatAnalyses[r]]_vars

\* C5: in every state, every region that has had a successful weather fetch in
\* a completed cycle of the mounted instance has an entry in weatherData, and
\* the entry is the value of its most recent such fetch.
C5_SnapshotHoldsLastGood ==
    \A r \in Regions : lastGoodWeather[r] # NoData => weatherData[r] = lastGoodWeather[r]

\* C6: fetchWeatherData reaches its finally block only once every weather and
\* threat request of the cycle has been answered: the answer that lets it
\* complete is the last one outstanding.
C6_CompletesAfterAllResolved ==
    [][\A c \in CycleIds :
          (WeatherCycle(c) /\ Completes(c)) => Cardinality(PendingOf(c)) = 1]_vars

\* C7: a manual refresh never starts a cycle while another cycle of the
\* instance is in flight (the request is deferred until that cycle completes).
C7_RefreshNeverConcurrent ==
    [][\A c \in CycleIds :
          (Starts(c) /\ cycles'[c].origin = "refresh") => InFlightOf(cycles'[c].inst) = {}]_vars

\* C8: a timer tick that finds a cycle of its instance in flight starts no
\* cycle: every cycle started by a tick starts with no other in flight.
C8_TickDroppedWhenBusy ==
    [][\A c \in CycleIds :
          (Starts(c) /\ cycles'[c].origin = "tick") => InFlightOf(cycles'[c].inst) = {}]_vars

\* C9: a manual refresh issued while no cycle of the instance is in flight
\* starts one cycle of the mounted instance at once and leaves the interval
\* timer as it was: same armed timers, same next firing time, no time passes.
C9_IdleRefreshKeepsTimer ==
    [][\A c \in CycleIds :
          (Starts(c) /\ cycles'[c].origin = "refresh" /\ InFlightOf(inst) = {}) =>
              /\ timers' = timers
              /\ clock' = clock
              /\ inst' = inst
              /\ cycles'[c].inst = inst
              /\ cycles'[c].section = activeSection
              /\ InFlight(c)'
              /\ \A d \in CycleIds \ {c} : cycles'[d] = cycles[d]]_vars

\* a refresh cycle of WeatherMonitor in flight, started after the mount cycle
\* had completed and before the first tick, with the first tick still due at
\* one period after the mount
C9_Witness ==
    /\ activeSection = "weather"
    /\ \E c \in CycleIds :
          /\ cycles[c].origin = "refresh"
          /\ InFlightOf(inst) = {c}
          /\ \A d \in CyclesOf(inst) \ {c} : cycles[d].origin = "mount"
    /\ clock > 0
    /\ timers = {[inst |-> inst, section |-> "weather", fire |-> PeriodOf("weather")]}

ManualCycles == {c \in CyclesOf(inst) : cycles[c].origin \notin {"mount", "tick"}}

\* C10: the mounted instance has exactly one armed timer, whose firing times
\* are the multiples of the section's period after the mount; exactly one of
\* its cycles is the mount cycle; and while no cycle has been started by
\* another trigger, the instance has started one cycle before the first tick
\* and one more at each tick.
C10_ActivationCyclesAndTimer ==
    /\ Cardinality(timers) = 1
    /\ \A tm \in timers :
          /\ tm.inst = inst
          /\ tm.section = activeSection
          /\ tm.fire >= PeriodOf(activeSection)
          /\ tm.fire % PeriodOf(activeSection) = 0
          /\ clock <= tm.fire
          /\ tm.fire - PeriodOf(activeSection) <= clock
          /\ ManualCycles = {} =>
                Cardinality(CyclesOf(inst)) = tm.fire \div PeriodOf(activeSection)
    /\ Cardinality({c \in CyclesOf(inst) : cycles[c].origin = "mount"}) = 1

\* WeatherMonitor right after its first tick, with no manual refresh: two
\* cycles started, the second by the tick one period after the mount
C10_Witness ==
    /\ activeSection = "weather"
    /\ ManualCycles = {}
    /\ clock = PeriodOf("weather")
    /\ Cardinality(CyclesOf(inst)) = 2
    /\ \E c \in CyclesOf(inst) : cycles[c].origin = "tick"
    /\ \A tm \in timers : tm.fire = 2 * PeriodOf("weather")

\* the fetch function of cycle c is suspended on the Promise.all of its
\* weather (k = "w") or threat (k = "t") requests, which is what attaches a
\* rejection handler to those promises
Awaited(c, k) ==
    \/ k = "w" /\ cycles[c].phase = "awaitWeather"
    \/ k = "t" /\ cycles[c].phase = "awaitThreat"

\* C11: every rejected request is handled: a request of a WeatherMonitor cycle
\* is only ever rejected while the fetch function awaits it (the single
\* request of the other pollers is always awaited inside try/catch).
C11_RejectionsHandled ==
    [][\A c \in CycleIds, k \in {"w", "t"}, r \in Regions :
          WeatherResponse(c, k, r, "fail") => Awaited(c, k)]_vars

\* C12: no request outlives the timeout, and when a WeatherMonitor cycle of the
\* mounted instance completes with a request failed at the timeout, the keys
\* whose requests of that cycle had succeeded hold the cycle's value.
C12_TimeoutEndsCycleAndMerges ==
    [][/\ clock' = clock + 1 => \A c \in CycleIds : InFlight(c) => cycles[c].age < TimeoutSteps
       /\ \A c \in CycleIds :
             (WeatherCycle(c) /\ Completes(c) /\ cycles[c].inst = inst
                 /\ cycles[c].age = TimeoutSteps) =>
                 \A r \in Regions :
                    /\ cycles[c].w[r] = "ok" => weatherData'[r] = c
                    /\ cycles[c].t[r] = "ok" => threatAnalyses'[r] = c]_vars

\* the mounted component holds no fetched data yet
SnapshotEmpty ==
    CASE activeSection = "weather" -> weatherData = NoRegionData /\ threatAnalyses = NoRegionData
      [] activeSection = "alerts" -> alerts = NoData
      [] activeSection = "reports" -> reports = NoData
      [] OTHER -> dashboardData = NoData

\* C13: as long as no cycle of the mounted instance has succeeded (it holds no
\* fetched data), its loading flag is true.
C13_LoadingUntilFirstSuccess == SnapshotEmpty => loading[activeSection]

\* C14: a failed fetch changes none of the displayed data: whenever a request
\* is answered with a failure, alerts, dashboardData, reports, weatherData and
\* threatAnalyses stay as they were.
C14_FailureKeepsData ==
    [][/\ \A c \in CycleIds :
             FetchResponse(c, "fail") =>
                 UNCHANGED <<alerts, dashboardData, reports, weatherData, threatAnalyses>>
       /\ \A c \in CycleIds, k \in {"w", "t"}, r \in Regions :
             WeatherResponse(c, k, r, "fail") =>
                 UNCHANGED <<alerts, dashboardData, reports, weatherData, threatAnalyses>>]_vars

\* SystemOverview showing the data of its mount cycle after the cycle started
\* by its first tick has completed without replacing them, i.e. has failed
C14_Witness ==
    /\ activeSection = "dashboard"
    /\ inst = 1
    /\ dashboardData = 1
    /\ ~loading["dashboard"]
    /\ cycles[2].inst = 1
    /\ cycles[2].origin = "tick"
    /\ cycles[2].phase = "done"

\* The staleness marker of region x's entry.  WeatherMonitor stores the
\* fetched value alone per region, and renders every stored entry alike: there
\* is no marker.
StaleMarked(x) == FALSE

\* C15: when a WeatherMonitor cycle of the mounted instance ends because the
\* request of region r failed, r's entry is absent afterwards if it was absent
\* before, and otherwise keeps its value and is marked not fresh.
C15_MergeOnFailure ==
    [][\A c \in CycleIds, r \in Regions :
          /\ (WeatherResponse(c, "w", r, "fail") /\ Completes(c) /\ cycles[c].inst = inst) =>
                IF weatherData[r] = NoData
                THEN weatherData'[r] = NoData
                ELSE weatherData'[r] = weatherData[r] /\ StaleMarked(r)
          /\ (WeatherResponse(c, "t", r, "fail") /\ Completes(c) /\ cycles[c].inst = inst) =>
                IF threatAnalyses[r] = NoData
                THEN threatAnalyses'[r] = NoData
                ELSE threatAnalyses'[r] = threatAnalyses[r] /\ StaleMarked(r)]_vars

\* the step stores v as the entry of region r in the map of kind k because
\* cycle v of the mounted instance completes with r's request of that kind
\* answered successfully
WrittenFromSuccess(v, k, r) ==
    /\ v \in CycleIds
    /\ cycles[v].inst = inst
    /\ \E k2 \in {"w", "t"}, r2 \in Regions :
          /\ WeatherResponse(v, k2, r2, "ok")
          /\ \/ k2 = k /\ r2 = r
             \/ (IF k = "w" THEN cycles[v].w[r] ELSE cycles[v].t[r]) = "ok"

\* C16: an entry of weatherData (threatAnalyses) is only ever stored from a
\* successful weather (threat) fetch of that region; the maps start empty, so
\* a region that has never been fetched successfully is absent.
C16_EntriesFromSuccessOnly ==
    [][\A r \in Regions :
          /\ (weatherData'[r] # weatherData[r] /\ weatherData'[r] # NoData)
                => WrittenFromSuccess(weatherData'[r], "w", r)
          /\ (threatAnalyses'[r] # threatAnalyses[r] /\ threatAnalyses'[r] # NoData)
                => WrittenFromSuccess(threatAnalyses'[r], "t", r)]_vars

\* WeatherMonitor after a cycle of the mounted instance has succeeded: every
\* region has an entry in both maps
C16_Witness ==
    /\ activeSection = "weather"
    /\ \A r \in Regions : weatherData[r] \in CyclesOf(inst) /\ threatAnalyses[r] \in CyclesOf(inst)

\* C17: the two maps are only ever published together, whole, and from one
\* cycle: while a WeatherMonitor instance stays mounted they change only in the
\* step in which the last outstanding request of a cycle is answered, and then
\* every region of both maps holds that cycle's value; so in every state both
\* maps hold, for every region, the value of one and the same cycle (or nothing).
C17_NoPartialPublish ==
    [][/\ (inst' = inst /\ <<weatherData, threatAnalyses>>' # <<weatherData, threatAnalyses>>) =>
             \E c \in CycleIds :
                /\ WeatherCycle(c)
                /\ Completes(c)
                /\ Cardinality(PendingOf(c)) = 1
                /\ weatherData' = [r \in Regions |-> c]
                /\ threatAnalyses' = [r \in Regions |-> c]
       /\ \E v \in {NoData} \cup CycleIds :
             /\ weatherData' = [r \in Regions |-> v]
             /\ threatAnalyses' = [r \in Regions |-> v]]_vars

\* WeatherMonitor showing the results of a later cycle than its mount cycle,
\* the same one in both maps
C17_Witness ==
    /\ activeSection = "weather"
    /\ \E c \in CyclesOf(inst) :
          /\ cycles[c].origin # "mount"
          /\ weatherData = [r \in Regions |-> c]
          /\ threatAnalyses = [r \in Regions |-> c]

\* C18: a failed request leaves the armed timers as they are and starts no
\* cycle (no retry); and whenever the timer of the mounted instance fires it
\* is re-armed one period later and a cycle is started that issues every
\* request anew.
C18_FailureRetriedByScheduleOnly ==
    [][/\ \A c \in CycleIds :
             FetchResponse(c, "fail") => (timers' = timers /\ Started' = Started)
       /\ \A c \in CycleIds, k \in {"w", "t"}, r \in Regions :
             WeatherResponse(c, k, r, "fail") => (timers' = timers /\ Started' = Started)
       /\ \A tm \in timers :
             (inst' = inst /\ tm \notin timers') =>
                /\ [tm EXCEPT !.fire = tm.fire + PeriodOf(tm.section)] \in timers'
                /\ \E c \in CycleIds :
                      /\ Starts(c)
                      /\ cycles'[c] = NewCycle(tm.section, tm.inst, "tick", TRUE)]_vars

\* SystemOverview whose mount cycle failed (nothing to show, loading over) and
\* whose first tick has started the next cycle, the only one in flight, with
\* the timer armed for the tick after
C18_Witness ==
    /\ activeSection = "dashboard"
    /\ inst = 1
    /\ dashboardData = NoData
    /\ ~loading["dashboard"]
    /\ cycles[1].phase = "done"
    /\ cycles[2].origin = "tick"
    /\ InFlightOf(1) = {2}
    /\ timers = {[inst |-> 1, section |-> "dashboard", fire |-> 2 * PeriodOf("dashboard")]}

\* the armed interval timers of instance i
TimersOf(i) == {tm \in timers : tm.inst = i}

\* C19: an instance that has been unmounted never has an armed timer again and
\* is never mounted again; a section change mounts a new instance, with the
\* next instance number, its own timer due one period later, one cycle (its
\* mount cycle), every piece of component state initial and loading true.
C19_StoppedIsTerminal ==
    [][/\ inst' >= inst
       /\ \A i \in 1..MaxInst : i < inst' => TimersOf(i)' = {}
       /\ activeSection' # activeSection =>
             /\ inst' = inst + 1
             /\ TimersOf(inst)' = {[inst |-> inst', section |-> activeSection',
                                     fire |-> clock' + PeriodOf(activeSection')]}
             /\ \E c \in CycleIds :
                   /\ Starts(c)
                   /\ CyclesOf(inst)' = {c}
                   /\ cycles'[c].origin = "mount"
             /\ loading'[activeSection']
             /\ alerts' = NoData
             /\ dashboardData' = NoData
             /\ reports' = NoData
             /\ weatherData' = NoRegionData
             /\ threatAnalyses' = NoRegionData
             /\ ~generating'
             /\ ~showForm'
             /\ ~submitting']_vars

\* SystemOverview mounted for the second time (the section was left and
\* entered again): a third instance, loading, with nothing to show and its
\* own timer and mount cycle, after the first instance's cycle has completed
C19_Witness ==
    /\ activeSection = "dashboard"
    /\ inst = 3
    /\ cycles[1].phase = "done"
    /\ loading["dashboard"]
    /\ dashboardData = NoData
    /\ InFlightOf(3) # {}
    /\ TimersOf(3) # {}

\* C20: in every state the mounted instance has exactly one armed interval
\* timer and every other instance has none.
C20_OneTimerPerInstance ==
    \A i \in 1..MaxInst : Cardinality(TimersOf(i)) = IF i = inst THEN 1 ELSE 0

\* AlertsPanel after a manual refresh and a generate-test-alerts run have each
\* started a cycle: still one timer, and none left of the unmounted
\* SystemOverview
C20_Witness ==
    /\ activeSection = "alerts"
    /\ inst = 2
    /\ \E c \in CyclesOf(2) : cycles[c].origin = "refresh"
    /\ \E c \in CyclesOf(2) : cycles[c].origin = "generate"
    /\ Cardinality(TimersOf(2)) = 1
    /\ TimersOf(1) = {}

\* ---- the publication step of fetchWeatherData as a function ----

\* the data values a request may return
Values == 1..MaxValues

\* the maps a component may hold: per region a value or nothing
Snapshots == [Regions -> {NoData} \cup Values]

\* the outcome of a cycle in which every request succeeded: the value
\* returned for each region by the weather and by the threat request
CycleResults == [w : [Regions -> Values], t : [Regions -> Values]]

\* What Promise.all resolves to: one {region, data} pair per region, in the
\* order of the regions array.
ResultsOf(f) ==
    [k \in 1..Cardinality(Regions) |-> [region |-> regions[k], data |-> f[regions[k]]]]

\* results.forEach(({region, data}) => { map[region] = data }) on the map acc
RECURSIVE BuildMap(_, _)
BuildMap(results, acc) ==
    IF results = <<>>
    THEN acc
    ELSE BuildMap(Tail(results), [acc EXCEPT ![Head(results).region] = Head(results).data])

\* Variant of Merge: the threat map is set from the weather map the component
\* holds instead of from the map built from the cycle's threat results.
MergeThreatFromState(S, C) ==
    [w |-> BuildMap(ResultsOf(C.w), NoRegionData), t |-> S.w]

\* The state an all-success cycle C leaves, from the state S: two new maps are
\* built from empty ones out of the results, and setWeatherData and
\* setThreatAnalyses replace the old maps by them.
Merge(S, C) ==
    [w |-> BuildMap(ResultsOf(C.w), NoRegionData),
     t |-> BuildMap(ResultsOf(C.t), NoRegionData)]

\* the maps the component holds
Snapshot == [w |-> weatherData, t |-> threatAnalyses]

\* A WeatherMonitor holding any pair of maps, with nothing in flight.
MergeInit ==
    /\ activeSection = "weather"
    /\ inst = 1
    /\ clock = 0
    /\ timers = {}
    /\ cycles = [c \in CycleIds |-> NoCycle]
    /\ loading = [s \in Sections |-> FALSE]
    /\ alerts = NoData
    /\ generating = FALSE
    /\ genPosting = {}
    /\ dashboardData = NoData
    /\ reports = NoData
    /\ showForm = FALSE
    /\ formId = 0
    /\ submitting = FALSE
    /\ formData = 0
    /\ subs = {}
    /\ weatherData \in Snapshots
    /\ threatAnalyses \in Snapshots
    /\ refreshing = FALSE
    /\ lastGoodWeather = NoRegionData
    /\ lateSetterCalls = FALSE

\* The success path of fetchWeatherData with the results C; clock counts the
\* cycles applied.
ApplyCycle(C) ==
    /\ clock < MaxApply
    /\ clock' = clock + 1
    /\ weatherData' = Merge(Snapshot, C).w
    /\ threatAnalyses' = Merge(Snapshot, C).t
    /\ lastGoodWeather' = C.w
    /\ UNCHANGED <<activeSection, inst, timers, cycles, loading, alertsVars, dashboardData,
                   reportsVars, refreshing, lateSetterCalls>>

MergeNext == \E C \in CycleResults : ApplyCycle(C)

MergeSpec == MergeInit /\ [][MergeNext]_vars

\* C21: for every pair of maps S the component may hold and every all-success
\* cycle result C, applying C to the outcome of applying C to S gives that
\* outcome again: merge(merge(S, C), C) = merge(S, C).
C21_MergeIdempotent ==
    \A C \in CycleResults : Merge(Merge(Snapshot, C), C) = Merge(Snapshot, C)

\* two cycles have been applied and the maps held are those of a cycle
\* result applied to itself
C21_Witness ==
    /\ clock = MaxApply
    /\ \E C \in CycleResults :
          /\ lastGoodWeather = C.w
          /\ Snapshot = Merge(Merge(Snapshot, C), C)

\* C22: while an instance stays mounted, the data it shows are never replaced
\* by those of a cycle started earlier than the cycle they came from (cycle
\* numbers follow the order in which the cycles started).
C22_StartOrderRespected ==
    [][inst' = inst =>
          /\ alerts' >= alerts
          /\ dashboardData' >= dashboardData
          /\ reports' >= reports
          /\ \A r \in Regions :
                /\ weatherData'[r] >= weatherData[r]
                /\ threatAnalyses'[r] >= threatAnalyses[r]]_vars

\* C23: whenever a fetchWeatherData cycle of the mounted WeatherMonitor is in
\* flight, refreshing is true.
C23_RefreshingWhileInFlight ==
    (activeSection = "weather" /\ InFlightOf(inst) # {}) => refreshing

\* C24: every armed timer is that of the section activeSection selects, there
\* is at most one, and a change of section leaves no timer of the previous
\* section armed.
C24_OneSectionActive ==
    [][/\ activeSection' \in Sections
       /\ Cardinality(timers') <= 1
       /\ \A tm \in timers' : tm.section = activeSection'
       /\ activeSection' # activeSection =>
             \A tm \in timers' : tm \notin timers /\ tm.section # activeSection]_vars

\* AlertsPanel mounted after WeatherMonitor was: its timer is the only one
C24_Witness ==
    /\ activeSection = "alerts"
    /\ inst = 3
    /\ cycles[2].section = "weather"
    /\ \E tm \in timers : timers = {tm} /\ tm.section = "alerts" /\ tm.inst = 3

\* the regions that have an entry in the map f
KeysOf(f) == {r \in Regions : f[r] # NoData}

SameKeySet ==
    /\ KeysOf(weatherData) = KeysOf(threatAnalyses)
    /\ KeysOf(weatherData) \in {{}, Regions}

\* C25: before and after every step weatherData and threatAnalyses have the
\* same regions, none or all of them; and a failed weather or threat request
\* leaves both maps as they were.
C25_SameKeySet ==
    [][/\ SameKeySet
       /\ SameKeySet'
       /\ \A c \in CycleIds, k \in {"w", "t"}, r \in Regions :
             WeatherResponse(c, k, r, "fail") => UNCHANGED <<weatherData, threatAnalyses>>]_vars

\* WeatherMonitor holding the full maps of one cycle after a later cycle of
\* the instance has completed without replacing them, i.e. has failed
C25_Witness ==
    /\ activeSection = "weather"
    /\ KeysOf(weatherData) = Regions
    /\ KeysOf(threatAnalyses) = Regions
    /\ \E c \in CyclesOf(inst) :
          /\ cycles[c].phase = "done"
          /\ \A r \in Regions : weatherData[r] < c /\ threatAnalyses[r] < c

\* the generation request of instance i was answered in this step
GenerationAnswered(i) == \E g \in genPosting : g.inst = i /\ g \notin genPosting'

\* C26: a successful generation response starts exactly one fetchAlerts cycle
\* and leaves generating set; a failed one starts no cycle and leaves alerts
\* unchanged; a fetchAlerts cycle of generateTestAlerts is only ever started
\* by a generation response; and generating is cleared only when that cycle
\* completes or the generation request fails.
C26_FetchAfterGeneration ==
    [][/\ \A i \in 1..MaxInst :
             /\ GenerateResponse(i, "ok") =>
                   /\ \E c \in CycleIds :
                         /\ Starts(c)
                         /\ Started' = Started \cup {c}
                         /\ cycles'[c] = NewCycle("alerts", i, "generate", i = inst)
                   /\ generating' = generating
                   /\ alerts' = alerts
             /\ GenerateResponse(i, "fail") => (Started' = Started /\ alerts' = alerts)
       /\ \A c \in CycleIds :
             (Starts(c) /\ cycles'[c].origin = "generate") =>
                 GenerationAnswered(cycles'[c].inst)
       /\ (inst' = inst /\ generating /\ ~generating') =>
             \/ \E c \in InFlightOf(inst) : Completes(c) /\ cycles[c].origin = "generate"
             \/ GenerateResponse(inst, "fail")]_vars

\* AlertsPanel showing the alerts fetched by the cycle that generateTestAlerts
\* started, generating cleared
C26_Witness ==
    /\ activeSection = "alerts"
    /\ ~generating
    /\ genPosting = {}
    /\ \E c \in CyclesOf(inst) :
          cycles[c].origin = "generate" /\ cycles[c].phase = "done" /\ alerts = c

\* a generateTestAlerts call of instance i has not run its finally block: its
\* generation request or the fetchAlerts it awaits is outstanding
GenerateOutstanding(i) ==
    \/ \E g \in genPosting : g.inst = i
    \/ \E c \in InFlightOf(i) : cycles[c].origin = "generate"

OneGenerateCall ==
    /\ generating <=> GenerateOutstanding(inst)
    /\ Cardinality({g \in genPosting : g.inst = inst})
          + Cardinality({c \in InFlightOf(inst) : cycles[c].origin = "generate"}) <= 1

\* C27: in every state generating is true exactly if a generateTestAlerts call
\* of the mounted AlertsPanel is outstanding, and there is at most one such
\* call; and whenever generating is true it is false again later.
C27_GeneratingWhileOutstanding == []OneGenerateCall /\ (generating ~> ~generating)

\* generateTestAlerts awaiting the fetchAlerts it started: generating set
C27_Witness ==
    /\ activeSection = "alerts"
    /\ generating
    /\ genPosting = {}
    /\ \E c \in InFlightOf(inst) : cycles[c].origin = "generate"

\* C28: a successful submission response starts exactly one fetchReports
\* cycle through onSubmitted, and such a cycle is only ever started by a
\* submission response; a failed one starts none and leaves the form open
\* with its data; either way the form that submitted, if still open, has
\* submitting false afterwards; and no form instance has two submissions
\* outstanding.
C28_OnSubmittedOnSuccessOnly ==
    [][/\ \A sb \in subs :
             /\ SubmitResponse(sb, "ok") =>
                   \E c \in CycleIds :
                      /\ Starts(c)
                      /\ Started' = Started \cup {c}
                      /\ cycles'[c].origin = "submit"
                      /\ cycles'[c].inst = sb.inst
             /\ SubmitResponse(sb, "fail") =>
                   /\ Started' = Started
                   /\ showForm' = showForm
                   /\ formId' = formId
                   /\ formData' = formData
             /\ ((SubmitResponse(sb, "ok") \/ SubmitResponse(sb, "fail"))
                    /\ sb.inst = inst /\ sb.form = formId) => ~submitting'
       /\ \A c \in CycleIds :
             (Starts(c) /\ cycles'[c].origin = "submit") =>
                 \E sb \in subs \ subs' : sb.inst = cycles'[c].inst
       /\ \A i \in 1..MaxInst, f \in 1..MaxForms :
             Cardinality({sb \in subs' : sb.inst = i /\ sb.form = f}) <= 1]_vars

\* CitizenReports after a submission of its form has succeeded: the form is
\* closed and the fetchReports cycle that onSubmitted started is in flight
C28_Witness ==
    /\ activeSection = "reports"
    /\ ~showForm
    /\ subs = {}
    /\ \E c \in InFlightOf(inst) : cycles[c].origin = "submit"

\* C29: a successful submission response of the mounted CitizenReports closes
\* the form and starts one fetchReports cycle in the same step, with all its
\* requests new, leaving the armed timer and the time as they are; when that
\* cycle is answered successfully, reports becomes the fetched list, and when
\* it fails reports stays as it was.
C29_SubmittedClosesAndFetches ==
    [][/\ \A sb \in subs :
             (SubmitResponse(sb, "ok") /\ sb.inst = inst) =>
                 /\ ~showForm'
                 /\ timers' = timers
                 /\ clock' = clock
                 /\ \E c \in CycleIds :
                       /\ Starts(c)
                       /\ Started' = Started \cup {c}
                       /\ cycles'[c] = NewCycle("reports", inst, "submit", TRUE)
       /\ \A c \in CycleIds :
             (cycles[c].origin = "submit" /\ cycles[c].inst = inst) =>
                 /\ FetchResponse(c, "ok") => reports' = c
                 /\ FetchResponse(c, "fail") => reports' = reports]_vars

\* CitizenReports showing the list fetched by the cycle that a successful
\* submission started, the form closed, the first tick still due one period
\* after the mount
C29_Witness ==
    /\ activeSection = "reports"
    /\ ~showForm
    /\ timers = {[inst |-> inst, section |-> "reports", fire |-> PeriodOf("reports")]}
    /\ \E c \in CyclesOf(inst) :
          cycles[c].origin = "submit" /\ cycles[c].phase = "done" /\ reports = c

\* C30: the loading flag of the mounted component is true exactly as long as
\* none of the instance's cycles has completed: it starts true, the first
\* completion clears it, and nothing sets it again.
C30_LoadingMonotone ==
    loading[activeSection] <=> (\A c \in CyclesOf(inst) : cycles[c].phase # "done")

\* AlertsPanel whose cycles so far have all failed, with a tick's cycle and a
\* manual refresh's cycle started after loading was cleared
C30_Witness ==
    /\ activeSection = "alerts"
    /\ ~loading["alerts"]
    /\ alerts = NoData
    /\ \E c \in CyclesOf(inst) : cycles[c].origin = "tick"
    /\ \E c \in CyclesOf(inst) : cycles[c].origin = "refresh"

====
